---- MODULE Spec2Model ----
(***************************************************************************)
(* Model of finean's PortfolioOptimizer (src/src/finean/                   *)
(* portfolio_optimizer.py), TimeSeriesPredictor (time_series_predictor.py) *)
(* and calculate_returns (utils.py).                                       *)
(*                                                                         *)
(* Numbers are fixed point integers:                                       *)
(*   a weight w stands for w / WUnit;                                      *)
(*   an expected return and the risk free rate are in percent;             *)
(*   a covariance entry is in percent squared (0.04 is 400);               *)
(*   a portfolio return and a volatility are in units of 1/(100*WUnit);    *)
(*   a Sharpe ratio is in hundredths;                                      *)
(*   a price is in currency units, a period return and its predictions are *)
(*   in basis points, their covariances in basis points squared.           *)
(* The tolerances of the source (1e-6 on weights, ftol 1e-9) are below     *)
(* one unit of every scale, so "within tolerance" is equality here.        *)
(***************************************************************************)
EXTENDS Integers, Sequences, FiniteSets, TLC

VARIABLES expected_returns, cov_matrix, risk_free_rate, assets, n_assets,
          last, frontier, predictor

vars == <<expected_returns, cov_matrix, risk_free_rate, assets, n_assets,
          last, frontier, predictor>>

(* ---------------------------- bounds ----------------------------------- *)

\* weight resolution: weights are multiples of 1/WUnit
WUnit == 2
\* largest n_points passed to calculate_efficient_frontier
MaxPoints == 3
\* largest number of rows of a price table passed to calculate_returns
MaxRows == 3

(* ------------------------- numeric helpers ----------------------------- *)

RECURSIVE SqrtBetween(_, _, _)
SqrtBetween(n, lo, hi) ==
  IF lo >= hi THEN lo
  ELSE LET mid == (lo + hi + 1) \div 2
       IN IF mid * mid <= n THEN SqrtBetween(n, mid, hi)
                            ELSE SqrtBetween(n, lo, mid - 1)

\* np.sqrt on a non-negative fixed point number (rounded down to the unit);
\* the search stops at the largest root whose square is a 32 bit integer
Sqrt(n) == SqrtBetween(n, 0, IF n < 46340 THEN n ELSE 46340)

RECURSIVE DotUpTo(_, _, _)
DotUpTo(a, b, k) == IF k = 0 THEN 0 ELSE a[k] * b[k] + DotUpTo(a, b, k - 1)

\* np.dot of two vectors
Dot(a, b) == DotUpTo(a, b, Len(a))

\* np.dot of a matrix and a vector
MatVec(m, v) == [i \in 1..Len(m) |-> Dot(m[i], v)]

RECURSIVE SumUpTo(_, _)
SumUpTo(a, k) == IF k = 0 THEN 0 ELSE a[k] + SumUpTo(a, k - 1)

\* np.sum
Sum(a) == SumUpTo(a, Len(a))

Transpose(m) == [i \in 1..Len(m) |-> [j \in 1..Len(m) |-> m[j][i]]]

(* ------------------------ python dictionaries -------------------------- *)

None == [none |-> TRUE]

\* variant: the value stored under the key is never looked at
GetDefaultOnly(d, key, default) == default

\* dict.get(key, default)
Get(d, key, default) == IF key \in DOMAIN d THEN d[key] ELSE default

\* variant: every object counts as true
TruthyAlways(v) == TRUE

\* truth value of a python object used in `if long_only:`
Truthy(v) == v = TRUE

(* ----------------------- portfolio statistics -------------------------- *)

_calculate_portfolio_return(weights) == Dot(weights, expected_returns)

\* variant: the square root is not taken
_calculate_portfolio_volatility_variance(weights) ==
  Dot(weights, MatVec(cov_matrix, weights))

_calculate_portfolio_volatility(weights) ==
  LET variance == Dot(weights, MatVec(cov_matrix, weights))
  IN Sqrt(variance)

\* variant: the risk free rate is not subtracted
_calculate_sharpe_ratio_raw(weights) ==
  LET portfolio_return == _calculate_portfolio_return(weights)
      portfolio_vol == _calculate_portfolio_volatility(weights)
  IN IF portfolio_vol = 0 THEN 0
     ELSE (portfolio_return * 100) \div portfolio_vol

\* variant: at zero volatility the excess return is returned undivided
_calculate_sharpe_ratio_undivided(weights) ==
  LET portfolio_return == _calculate_portfolio_return(weights)
      portfolio_vol == _calculate_portfolio_volatility(weights)
  IN IF portfolio_vol = 0 THEN (portfolio_return - risk_free_rate * WUnit) * 100
     ELSE ((portfolio_return - risk_free_rate * WUnit) * 100) \div portfolio_vol

\* variant: the risk free rate is added
_calculate_sharpe_ratio_plus(weights) ==
  LET portfolio_return == _calculate_portfolio_return(weights)
      portfolio_vol == _calculate_portfolio_volatility(weights)
  IN IF portfolio_vol = 0 THEN 0
     ELSE ((portfolio_return + risk_free_rate * WUnit) * 100) \div portfolio_vol

_calculate_sharpe_ratio(weights) ==
  LET portfolio_return == _calculate_portfolio_return(weights)
      portfolio_vol == _calculate_portfolio_volatility(weights)
  IN IF portfolio_vol = 0 THEN 0
     ELSE ((portfolio_return - risk_free_rate * WUnit) * 100) \div portfolio_vol

get_portfolio_statistics(weights) ==
  [expected_return |-> _calculate_portfolio_return(weights),
   volatility |-> _calculate_portfolio_volatility(weights),
   sharpe_ratio |-> _calculate_sharpe_ratio(weights)]

(* ------------------------ scipy.optimize.minimize ---------------------- *)

Raised(error) == [kind |-> "raise", error |-> error]

\* variant: the budget constraint function is np.sum(x)
ConstraintFunSumOnly(c, x) ==
  IF c.fun = "sum(x) - 1.0" THEN Sum(x)
  ELSE c.target_volatility - _calculate_portfolio_volatility(x)

\* variant: the risk constraint function has its sign reversed
ConstraintFunVolMinusTarget(c, x) ==
  IF c.fun = "sum(x) - 1.0" THEN Sum(x) - WUnit
  ELSE _calculate_portfolio_volatility(x) - c.target_volatility

\* the value of a constraint function at x
ConstraintFun(c, x) ==
  IF c.fun = "sum(x) - 1.0" THEN Sum(x) - WUnit
  ELSE c.target_volatility - _calculate_portfolio_volatility(x)

ConstraintHolds(c, x) ==
  IF c.type = "eq" THEN ConstraintFun(c, x) = 0 ELSE ConstraintFun(c, x) >= 0

\* the points of the weight grid inside the bounds
Box(bounds) ==
  LET n == Len(bounds)
      lo == CHOOSE l \in {bounds[i][1] : i \in 1..n} :
              \A i \in 1..n : l <= bounds[i][1]
      hi == CHOOSE h \in {bounds[i][2] : i \in 1..n} :
              \A i \in 1..n : h >= bounds[i][2]
  IN {x \in [1..n -> lo..hi] :
        \A i \in 1..n : bounds[i][1] <= x[i] /\ x[i] <= bounds[i][2]}

Clip(x, bounds) ==
  [i \in 1..Len(x) |->
     IF x[i] < bounds[i][1] THEN bounds[i][1]
     ELSE IF x[i] > bounds[i][2] THEN bounds[i][2] ELSE x[i]]

\* iterates SLSQP may stop at without converging: the clipped initial
\* guess and the two extreme corners of the box (the constraints need not
\* hold at any of them)
LastIterates(x0, bounds) ==
  {Clip(x0, bounds),
   [i \in 1..Len(x0) |-> bounds[i][1]],
   [i \in 1..Len(x0) |-> bounds[i][2]]}

\* variant: the return objective is not negated
ObjectivePositiveReturn(fun, x) ==
  IF fun = "neg_sharpe" THEN -_calculate_sharpe_ratio(x)
  ELSE IF fun = "portfolio_vol" THEN _calculate_portfolio_volatility(x)
  ELSE _calculate_portfolio_return(x)

\* the value at x of the objective function a solver hands to minimize
Objective(fun, x) ==
  IF fun = "neg_sharpe" THEN -_calculate_sharpe_ratio(x)
  ELSE IF fun = "portfolio_vol" THEN _calculate_portfolio_volatility(x)
  ELSE -_calculate_portfolio_return(x)

\* minimize(fun, x0, method='SLSQP', bounds=bounds, constraints=constraints):
\* the set of outcomes of the call.  It raises ValueError when a lower bound
\* exceeds its upper bound and may raise out of the solver otherwise; with
\* success it returns a minimiser of fun over the points of the box that
\* satisfy the constraints; without success it returns its last iterate.
Minimize(fun, x0, bounds, constraints) ==
  IF \E i \in 1..Len(bounds) : bounds[i][1] > bounds[i][2]
  THEN {Raised("ValueError")}
  ELSE LET feasible == {x \in Box(bounds) :
                          \A k \in 1..Len(constraints) :
                            ConstraintHolds(constraints[k], x)}
           values == {Objective(fun, x) : x \in feasible}
           least == CHOOSE v \in values : \A u \in values : v <= u
           best == {x \in feasible : Objective(fun, x) = least}
       IN {[kind |-> "result", x |-> x, success |-> TRUE] : x \in best}
          \cup {[kind |-> "result", x |-> x, success |-> FALSE] :
                  x \in LastIterates(x0, bounds)}
          \cup {Raised("ValueError")}

(* ------------------------------ solvers -------------------------------- *)

EmptyDict == [k \in {} |-> 0]

\* what a solver call leaves behind: the bounds it derived, what minimize
\* gave back, and what the call returns (a result dict) or raises
Frame(bounds, result, ret) == [bounds |-> bounds, result |-> result, ret |-> ret]

optimize_max_sharpe(constraints) ==
  LET cdict == IF constraints = None THEN EmptyDict ELSE constraints
      max_weight == Get(cdict, "max_weight", WUnit)
      min_weight == Get(cdict, "min_weight", 0)
      long_only == Get(cdict, "long_only", TRUE)
      x0 == [i \in 1..n_assets |-> WUnit \div n_assets]
      bounds == IF Truthy(long_only)
                THEN [i \in 1..n_assets |-> <<min_weight, max_weight>>]
                ELSE [i \in 1..n_assets |-> <<-max_weight, max_weight>>]
      constraint == <<[type |-> "eq", fun |-> "sum(x) - 1.0"]>>
      neg_sharpe == "neg_sharpe"
  IN {Frame(bounds, result,
        IF result.kind = "raise" THEN result
        ELSE [kind |-> "return",
              weights |-> result.x,
              expected_return |-> _calculate_portfolio_return(result.x),
              volatility |-> _calculate_portfolio_volatility(result.x),
              sharpe_ratio |-> _calculate_sharpe_ratio(result.x),
              optimization_success |-> result.success]) :
      result \in Minimize(neg_sharpe, x0, bounds, constraint)}

optimize_min_volatility(constraints) ==
  LET cdict == IF constraints = None THEN EmptyDict ELSE constraints
      max_weight == Get(cdict, "max_weight", WUnit)
      min_weight == Get(cdict, "min_weight", 0)
      long_only == Get(cdict, "long_only", TRUE)
      x0 == [i \in 1..n_assets |-> WUnit \div n_assets]
      bounds == IF Truthy(long_only)
                THEN [i \in 1..n_assets |-> <<min_weight, max_weight>>]
                ELSE [i \in 1..n_assets |-> <<-max_weight, max_weight>>]
      constraint == <<[type |-> "eq", fun |-> "sum(x) - 1.0"]>>
      portfolio_vol == "portfolio_vol"
  IN {Frame(bounds, result,
        IF result.kind = "raise" THEN result
        ELSE [kind |-> "return",
              weights |-> result.x,
              expected_return |-> _calculate_portfolio_return(result.x),
              volatility |-> _calculate_portfolio_volatility(result.x),
              sharpe_ratio |-> _calculate_sharpe_ratio(result.x),
              optimization_success |-> result.success]) :
      result \in Minimize(portfolio_vol, x0, bounds, constraint)}

\* variant: a solve that did not converge raises instead of returning
optimize_max_return_strict(constraints) ==
  LET cdict == IF constraints = None THEN EmptyDict ELSE constraints
      max_weight == Get(cdict, "max_weight", WUnit)
      min_weight == Get(cdict, "min_weight", 0)
      long_only == Get(cdict, "long_only", TRUE)
      x0 == [i \in 1..n_assets |-> WUnit \div n_assets]
      bounds == IF Truthy(long_only)
                THEN [i \in 1..n_assets |-> <<min_weight, max_weight>>]
                ELSE [i \in 1..n_assets |-> <<-max_weight, max_weight>>]
      constraint == <<[type |-> "eq", fun |-> "sum(x) - 1.0"]>>
      neg_return == "neg_return"
  IN {Frame(bounds, result,
        IF result.kind = "raise" THEN result
        ELSE IF ~result.success THEN Raised("RuntimeError")
        ELSE [kind |-> "return",
              weights |-> result.x,
              expected_return |-> _calculate_portfolio_return(result.x),
              volatility |-> _calculate_portfolio_volatility(result.x),
              sharpe_ratio |-> _calculate_sharpe_ratio(result.x),
              optimization_success |-> result.success]) :
      result \in Minimize(neg_return, x0, bounds, constraint)}

optimize_max_return(constraints) ==
  LET cdict == IF constraints = None THEN EmptyDict ELSE constraints
      max_weight == Get(cdict, "max_weight", WUnit)
      min_weight == Get(cdict, "min_weight", 0)
      long_only == Get(cdict, "long_only", TRUE)
      x0 == [i \in 1..n_assets |-> WUnit \div n_assets]
      bounds == IF Truthy(long_only)
                THEN [i \in 1..n_assets |-> <<min_weight, max_weight>>]
                ELSE [i \in 1..n_assets |-> <<-max_weight, max_weight>>]
      constraint == <<[type |-> "eq", fun |-> "sum(x) - 1.0"]>>
      neg_return == "neg_return"
  IN {Frame(bounds, result,
        IF result.kind = "raise" THEN result
        ELSE [kind |-> "return",
              weights |-> result.x,
              expected_return |-> _calculate_portfolio_return(result.x),
              volatility |-> _calculate_portfolio_volatility(result.x),
              sharpe_ratio |-> _calculate_sharpe_ratio(result.x),
              optimization_success |-> result.success]) :
      result \in Minimize(neg_return, x0, bounds, constraint)}

optimize_max_return_for_risk(target_volatility, constraints) ==
  LET cdict == IF constraints = None THEN EmptyDict ELSE constraints
      max_weight == Get(cdict, "max_weight", WUnit)
      min_weight == Get(cdict, "min_weight", 0)
      long_only == Get(cdict, "long_only", TRUE)
      x0 == [i \in 1..n_assets |-> WUnit \div n_assets]
      bounds == IF Truthy(long_only)
                THEN [i \in 1..n_assets |-> <<min_weight, max_weight>>]
                ELSE [i \in 1..n_assets |-> <<-max_weight, max_weight>>]
      constraints_list ==
        <<[type |-> "eq", fun |-> "sum(x) - 1.0"],
          [type |-> "ineq", fun |-> "target_volatility - volatility(x)",
           target_volatility |-> target_volatility]>>
      neg_return == "neg_return"
  IN {Frame(bounds, result,
        IF result.kind = "raise" THEN result
        ELSE [kind |-> "return",
              weights |-> result.x,
              expected_return |-> _calculate_portfolio_return(result.x),
              volatility |-> _calculate_portfolio_volatility(result.x),
              sharpe_ratio |-> _calculate_sharpe_ratio(result.x),
              optimization_success |-> result.success]) :
      result \in Minimize(neg_return, x0, bounds, constraints_list)}

(* ---------------------------- construction ----------------------------- *)

Abs(x) == IF x < 0 THEN -x ELSE x

\* np.allclose(a, b): |a - b| <= atol + rtol * |b| on every entry, with the
\* defaults rtol = 1e-5 and atol = 1e-8 (a ten-thousandth of a covariance
\* unit); both sides are multiplied by 100000
AllClose(a, b) ==
  \A i \in 1..Len(a) : \A j \in 1..Len(a[i]) :
    100000 * Abs(a[i][j] - b[i][j]) <= 10 + Abs(b[i][j])

\* variant: the covariance matrix is stored as given
InitCovMatrixAsGiven(covariance_matrix) == covariance_matrix

\* PortfolioOptimizer.__init__: the covariance matrix as stored
InitCovMatrix(covariance_matrix) ==
  IF ~AllClose(covariance_matrix, Transpose(covariance_matrix))
  THEN [i \in 1..Len(covariance_matrix) |->
         [j \in 1..Len(covariance_matrix) |->
            (covariance_matrix[i][j] + Transpose(covariance_matrix)[i][j]) \div 2]]
  ELSE covariance_matrix

\* inputs of the constructor
ReturnInputs == {<<10, 15>>}
CovInputs == {<<<<400, 100>>, <<100, 900>>>>, <<<<900, -100>>, <<-200, 400>>>>}
RiskFreeInputs == {0, 12}

\* covariance arguments of a later construction: the ones above and one
\* whose off-diagonal entries differ by a relative 1e-5
ConstructCovInputs ==
  CovInputs \cup {<<<<400000, 100001>>, <<100000, 900000>>>>}

\* weights arguments of get_portfolio_statistics
WeightInputs == [1..2 -> (-1)..WUnit]

\* constraints arguments of the solver calls
ConstraintInputs ==
  {None,
   [max_weight |-> WUnit - 1],
   [min_weight |-> 1],
   [long_only |-> FALSE],
   [long_only |-> FALSE, min_weight |-> 1],
   [min_weight |-> 1, max_weight |-> 0]}

\* target_volatility arguments of optimize_max_return_for_risk
TargetInputs == {0, 20 * WUnit, 25 * WUnit, 40 * WUnit}

Idle == [pc |-> "idle"]

Init ==
  /\ \E er \in ReturnInputs, cm \in CovInputs, rf \in RiskFreeInputs :
       /\ expected_returns = er
       /\ cov_matrix = InitCovMatrix(cm)
       /\ risk_free_rate = rf
       /\ assets = [i \in 1..Len(er) |-> i]
       /\ n_assets = Len(er)
       /\ last = [op |-> "__init__", expected_returns |-> er,
                  covariance_matrix |-> cm, risk_free_rate |-> rf]
  /\ frontier = Idle
  /\ predictor = None

Fields == <<expected_returns, cov_matrix, risk_free_rate, assets, n_assets>>

(* ------------------------------ actions -------------------------------- *)

Call(op, constraints, target_volatility, frame) ==
  [op |-> op, constraints |-> constraints,
   target_volatility |-> target_volatility,
   bounds |-> frame.bounds, result |-> frame.result, ret |-> frame.ret]

OptimizeMaxSharpe ==
  /\ frontier.pc = "idle"
  /\ \E c \in ConstraintInputs : \E f \in optimize_max_sharpe(c) :
       last' = Call("optimize_max_sharpe", c, None, f)
  /\ UNCHANGED <<Fields, frontier, predictor>>

OptimizeMinVolatility ==
  /\ frontier.pc = "idle"
  /\ \E c \in ConstraintInputs : \E f \in optimize_min_volatility(c) :
       last' = Call("optimize_min_volatility", c, None, f)
  /\ UNCHANGED <<Fields, frontier, predictor>>

\* variant: the solver negates the stored expected returns in place
OptimizeMaxReturnInPlace ==
  /\ frontier.pc = "idle"
  /\ \E c \in ConstraintInputs : \E f \in optimize_max_return(c) :
       last' = Call("optimize_max_return", c, None, f)
  /\ expected_returns' = [i \in 1..n_assets |-> -expected_returns[i]]
  /\ UNCHANGED <<cov_matrix, risk_free_rate, assets, n_assets, frontier,
               predictor>>

OptimizeMaxReturn ==
  /\ frontier.pc = "idle"
  /\ \E c \in ConstraintInputs : \E f \in optimize_max_return(c) :
       last' = Call("optimize_max_return", c, None, f)
  /\ UNCHANGED <<Fields, frontier, predictor>>

OptimizeMaxReturnForRisk ==
  /\ frontier.pc = "idle"
  /\ \E c \in ConstraintInputs, t \in TargetInputs :
       \E f \in optimize_max_return_for_risk(t, c) :
         last' = Call("optimize_max_return_for_risk", c, t, f)
  /\ UNCHANGED <<Fields, frontier, predictor>>

\* variant: the stop value is left out, as with endpoint=False
LinspaceOpen(start, stop, num) ==
  [i \in 1..num |-> start + ((i - 1) * (stop - start)) \div num]

\* np.linspace(start, stop, num) for num >= 0
Linspace(start, stop, num) ==
  [i \in 1..num |->
     IF num = 1 THEN start
     ELSE IF i = num THEN stop
     ELSE start + ((i - 1) * (stop - start)) \div (num - 1)]

\* n_points arguments of calculate_efficient_frontier
PointInputs == (-1)..MaxPoints

\* constraints arguments of calculate_efficient_frontier
FrontierConstraintInputs ==
  {None, [long_only |-> FALSE], [min_weight |-> 1, max_weight |-> 0]}

\* one entry of the record of solver calls made by a frontier run
Solve(fn, constraints, target_volatility, frame) ==
  [fn |-> fn, constraints |-> constraints,
   target_volatility |-> target_volatility, ret |-> frame.ret]

\* a call of calculate_efficient_frontier: its arguments, the solver calls
\* it has made, the grid it built and what it returned or raised
FrontierCall(n_points, constraints, solves, target_vols, ret) ==
  [op |-> "calculate_efficient_frontier", n_points |-> n_points,
   constraints |-> constraints, solves |-> solves,
   target_vols |-> target_vols, ret |-> ret]

\* variant: the new point is put in front of the earlier ones
AppendRowFront(results, result) ==
  <<[volatility |-> result.volatility,
     expected_return |-> result.expected_return,
     sharpe_ratio |-> result.sharpe_ratio]>> \o results

\* results.append({...}) of the loop body
AppendRow(results, result) ==
  Append(results, [volatility |-> result.volatility,
                   expected_return |-> result.expected_return,
                   sharpe_ratio |-> result.sharpe_ratio])

\* variant: every iteration uses the last value of the grid
TargetVolLast(target_vols, i) == target_vols[Len(target_vols)]

\* the loop variable of `for target_vol in target_vols`
TargetVol(target_vols, i) == target_vols[i]

\* a caller enters calculate_efficient_frontier(n_points, constraints)
FrontierEnter ==
  /\ frontier.pc = "idle"
  /\ \E n_points \in PointInputs, constraints \in FrontierConstraintInputs :
       /\ frontier' = [pc |-> "anchors", n_points |-> n_points,
                       constraints |-> constraints]
       /\ last' = FrontierCall(n_points, constraints, <<>>, <<>>,
                               [kind |-> "running"])
  /\ UNCHANGED <<Fields, predictor>>

\* variant: the anchor solves run inside the error handler, an anchor that
\* raises leaves an empty frontier
FrontierAnchorsAbsorbing ==
  /\ frontier.pc = "anchors"
  /\ LET n_points == frontier.n_points
         constraints == frontier.constraints
         empty == [kind |-> "return", rows |-> <<>>]
     IN
       \E a \in optimize_min_volatility(constraints) :
         LET s1 == Solve("optimize_min_volatility", constraints, None, a)
         IN IF a.ret.kind = "raise"
            THEN /\ last' = FrontierCall(n_points, constraints, <<s1>>, <<>>, empty)
                 /\ frontier' = Idle
            ELSE \E b \in optimize_max_sharpe(constraints) :
              LET s2 == Solve("optimize_max_sharpe", constraints, None, b)
                  min_vol == a.ret.volatility
                  max_vol == b.ret.volatility * 2
              IN IF b.ret.kind = "raise"
                 THEN /\ last' = FrontierCall(n_points, constraints, <<s1, s2>>, <<>>,
                                              empty)
                      /\ frontier' = Idle
                 ELSE IF n_points < 0
                 THEN /\ last' = FrontierCall(n_points, constraints, <<s1, s2>>,
                                              <<>>, Raised("ValueError"))
                      /\ frontier' = Idle
                 ELSE /\ frontier' =
                           [pc |-> "loop", n_points |-> n_points,
                            constraints |-> constraints,
                            min_vol_result |-> a.ret,
                            max_sharpe_result |-> b.ret,
                            min_vol |-> min_vol, max_vol |-> max_vol,
                            target_vols |-> Linspace(min_vol, max_vol, n_points),
                            i |-> 1, results |-> <<>>, solves |-> <<s1, s2>>]
                      /\ last' = FrontierCall(n_points, constraints, <<s1, s2>>,
                                              Linspace(min_vol, max_vol, n_points),
                                              [kind |-> "running"])
  /\ UNCHANGED <<Fields, predictor>>

\* calculate_efficient_frontier up to the loop: the two anchor solves and
\* the grid of target volatilities
FrontierAnchors ==
  /\ frontier.pc = "anchors"
  /\ LET n_points == frontier.n_points
         constraints == frontier.constraints
     IN
       \E a \in optimize_min_volatility(constraints) :
         LET s1 == Solve("optimize_min_volatility", constraints, None, a)
         IN IF a.ret.kind = "raise"
            THEN /\ last' = FrontierCall(n_points, constraints, <<s1>>, <<>>, a.ret)
                 /\ frontier' = Idle
            ELSE \E b \in optimize_max_sharpe(constraints) :
              LET s2 == Solve("optimize_max_sharpe", constraints, None, b)
                  min_vol_result == a.ret
                  max_sharpe_result == b.ret
                  min_vol == min_vol_result.volatility
                  max_vol == max_sharpe_result.volatility * 2
              IN IF b.ret.kind = "raise"
                 THEN /\ last' = FrontierCall(n_points, constraints, <<s1, s2>>, <<>>,
                                              b.ret)
                      /\ frontier' = Idle
                 ELSE IF n_points < 0
                 THEN /\ last' = FrontierCall(n_points, constraints, <<s1, s2>>,
                                              <<>>, Raised("ValueError"))
                      /\ frontier' = Idle
                 ELSE /\ frontier' =
                           [pc |-> "loop", n_points |-> n_points,
                            constraints |-> constraints,
                            min_vol_result |-> min_vol_result,
                            max_sharpe_result |-> max_sharpe_result,
                            min_vol |-> min_vol, max_vol |-> max_vol,
                            target_vols |-> Linspace(min_vol, max_vol, n_points),
                            i |-> 1, results |-> <<>>, solves |-> <<s1, s2>>]
                      /\ last' = FrontierCall(n_points, constraints, <<s1, s2>>,
                                              Linspace(min_vol, max_vol, n_points),
                                              [kind |-> "running"])
  /\ UNCHANGED <<Fields, predictor>>

\* variant: the loop body has no try/except, a raising sub-solve ends the call
FrontierLoopUncaught ==
  /\ frontier.pc = "loop"
  /\ frontier.i <= Len(frontier.target_vols)
  /\ LET target_vol == TargetVol(frontier.target_vols, frontier.i)
     IN \E f \in optimize_max_return_for_risk(target_vol, frontier.constraints) :
          LET s == Solve("optimize_max_return_for_risk", frontier.constraints,
                         target_vol, f)
              result == f.ret
          IN IF result.kind = "raise"
             THEN /\ last' = FrontierCall(frontier.n_points, frontier.constraints,
                                          Append(frontier.solves, s),
                                          frontier.target_vols, result)
                  /\ frontier' = Idle
             ELSE /\ frontier' =
                       [frontier EXCEPT
                          !.i = @ + 1,
                          !.solves = Append(@, s),
                          !.results = AppendRow(@, result)]
                  /\ UNCHANGED last
  /\ UNCHANGED <<Fields, predictor>>

\* variant: the sub-solve of a grid value is given no constraints
FrontierLoopDefaultConstraints ==
  /\ frontier.pc = "loop"
  /\ frontier.i <= Len(frontier.target_vols)
  /\ LET target_vol == TargetVol(frontier.target_vols, frontier.i)
     IN \E f \in optimize_max_return_for_risk(target_vol, None) :
          LET s == Solve("optimize_max_return_for_risk", None, target_vol, f)
              result == f.ret
          IN frontier' =
               [frontier EXCEPT
                  !.i = @ + 1,
                  !.solves = Append(@, s),
                  !.results = IF result.kind = "raise" THEN @
                              ELSE AppendRow(@, result)]
  /\ UNCHANGED <<Fields, last, predictor>>

\* variant: a result that did not converge is skipped like one that raised
FrontierLoopConvergedOnly ==
  /\ frontier.pc = "loop"
  /\ frontier.i <= Len(frontier.target_vols)
  /\ LET target_vol == TargetVol(frontier.target_vols, frontier.i)
     IN \E f \in optimize_max_return_for_risk(target_vol, frontier.constraints) :
          LET s == Solve("optimize_max_return_for_risk", frontier.constraints,
                         target_vol, f)
              result == f.ret
          IN frontier' =
               [frontier EXCEPT
                  !.i = @ + 1,
                  !.solves = Append(@, s),
                  !.results = IF result.kind = "raise" THEN @
                              ELSE IF ~result.optimization_success THEN @
                              ELSE AppendRow(@, result)]
  /\ UNCHANGED <<Fields, last, predictor>>

\* one iteration of `for target_vol in target_vols`
FrontierLoop ==
  /\ frontier.pc = "loop"
  /\ frontier.i <= Len(frontier.target_vols)
  /\ LET target_vol == TargetVol(frontier.target_vols, frontier.i)
     IN \E f \in optimize_max_return_for_risk(target_vol, frontier.constraints) :
          LET s == Solve("optimize_max_return_for_risk", frontier.constraints,
                         target_vol, f)
              result == f.ret
          IN frontier' =
               [frontier EXCEPT
                  !.i = @ + 1,
                  !.solves = Append(@, s),
                  !.results = IF result.kind = "raise" THEN @
                              ELSE AppendRow(@, result)]
  /\ UNCHANGED <<Fields, last, predictor>>

\* return pd.DataFrame(results)
FrontierReturn ==
  /\ frontier.pc = "loop"
  /\ frontier.i > Len(frontier.target_vols)
  /\ last' = FrontierCall(frontier.n_points, frontier.constraints, frontier.solves,
                          frontier.target_vols,
                          [kind |-> "return", rows |-> frontier.results])
  /\ frontier' = Idle
  /\ UNCHANGED <<Fields, predictor>>

\* PortfolioOptimizer(expected_returns, covariance_matrix, risk_free_rate):
\* the optimizer under observation is a newly constructed one
Construct ==
  /\ frontier.pc = "idle"
  /\ \E er \in ReturnInputs, cm \in ConstructCovInputs, rf \in RiskFreeInputs :
       /\ expected_returns' = er
       /\ cov_matrix' = InitCovMatrix(cm)
       /\ risk_free_rate' = rf
       /\ assets' = [i \in 1..Len(er) |-> i]
       /\ n_assets' = Len(er)
       /\ last' = [op |-> "__init__", expected_returns |-> er,
                   covariance_matrix |-> cm, risk_free_rate |-> rf]
  /\ UNCHANGED <<frontier, predictor>>

GetPortfolioStatistics ==
  /\ frontier.pc = "idle"
  /\ \E weights \in WeightInputs :
       last' = [op |-> "get_portfolio_statistics", weights |-> weights,
                ret |-> get_portfolio_statistics(weights)]
  /\ UNCHANGED <<Fields, frontier, predictor>>

Next ==
  \/ OptimizeMaxSharpe
  \/ OptimizeMinVolatility
  \/ OptimizeMaxReturn
  \/ OptimizeMaxReturnForRisk

Spec == Init /\ [][Next]_vars

NextFrontier ==
  \/ FrontierEnter
  \/ FrontierAnchors
  \/ FrontierLoop
  \/ FrontierReturn

SpecFrontier == Init /\ [][NextFrontier]_vars

NextStatistics ==
  \/ Construct
  \/ GetPortfolioStatistics

SpecStatistics == Init /\ [][NextStatistics]_vars

\* every operation of a constructed optimizer; the frontier is asked for at
\* most one point
NextOperations ==
  \/ Next
  \/ GetPortfolioStatistics
  \/ NextFrontier /\ last'.n_points <= 1

SpecOperations == Init /\ [][NextOperations]_vars

(* ------------------------- TimeSeriesPredictor ------------------------- *)

\* the float that is not a number
NaN == -(2 ^ 30)

\* a float times a number of periods
Mul(a, p) == IF a = NaN THEN NaN ELSE a * p

\* one column of a table of rows
Column(table, i) == [t \in 1..Len(table) |-> table[t][i]]

\* self.name = value on a python object
SetAttr(obj, name, value) ==
  [a \in DOMAIN obj \cup {name} |-> IF a = name THEN value ELSE obj[a]]

\* TimeSeriesPredictor(method): the attributes of the new object
TimeSeriesPredictor(method) == [method |-> method, fitted_params |-> EmptyDict]

\* variant: the span of the ewma method is stored as window
fit_span_as_window(returns, kwargs) ==
  LET stored == SetAttr(SetAttr(predictor, "returns", returns),
                        "assets", [i \in 1..Len(returns[1]) |-> i])
  IN IF predictor.method = "ewma"
     THEN SetAttr(stored, "window", Get(kwargs, "span", 60))
     ELSE IF predictor.method \in {"sma", "ema"}
     THEN SetAttr(stored, "window", Get(kwargs, "window", 30))
     ELSE stored

\* variant: a parameter that is not given keeps the value of an earlier fit
fit_keeping_parameters(returns, kwargs) ==
  LET stored == SetAttr(SetAttr(predictor, "returns", returns),
                        "assets", [i \in 1..Len(returns[1]) |-> i])
  IN IF predictor.method = "ewma"
     THEN SetAttr(stored, "span", Get(kwargs, "span", Get(predictor, "span", 60)))
     ELSE IF predictor.method \in {"sma", "ema"}
     THEN SetAttr(stored, "window",
                  Get(kwargs, "window", Get(predictor, "window", 30)))
     ELSE stored

\* TimeSeriesPredictor.fit(returns, **kwargs): the attributes afterwards
fit(returns, kwargs) ==
  LET stored == SetAttr(SetAttr(predictor, "returns", returns),
                        "assets", [i \in 1..Len(returns[1]) |-> i])
  IN IF predictor.method = "ewma"
     THEN SetAttr(stored, "span", Get(kwargs, "span", 60))
     ELSE IF predictor.method \in {"sma", "ema"}
     THEN SetAttr(stored, "window", Get(kwargs, "window", 30))
     ELSE stored

RECURSIVE EwmMeanUpTo(_, _, _)
\* Series.ewm(span=span, adjust=False).mean() at row t: the weight of the
\* new observation is alpha = 2 / (span + 1)
EwmMeanUpTo(x, span, t) ==
  IF t = 1 THEN x[1]
  ELSE ((span - 1) * EwmMeanUpTo(x, span, t - 1) + 2 * x[t]) \div (span + 1)

\* Series.rolling(window=window).mean().iloc[-1]: not a number when the
\* series has fewer than window rows
RollingMeanLast(x, window) ==
  IF Len(x) < window THEN NaN
  ELSE Sum(SubSeq(x, Len(x) - window + 1, Len(x))) \div window

\* Series.mean()
Mean(x) == Sum(x) \div Len(x)

_predict_ewma ==
  [i \in 1..Len(predictor.assets) |->
     EwmMeanUpTo(Column(predictor.returns, i), predictor.span,
                 Len(predictor.returns))]

_predict_sma ==
  [i \in 1..Len(predictor.assets) |->
     RollingMeanLast(Column(predictor.returns, i), predictor.window)]

_predict_ema ==
  [i \in 1..Len(predictor.assets) |->
     EwmMeanUpTo(Column(predictor.returns, i), predictor.window,
                 Len(predictor.returns))]

_predict_historical_mean ==
  [i \in 1..Len(predictor.assets) |-> Mean(Column(predictor.returns, i))]

Returns(value) == [kind |-> "return", value |-> value]

\* variant: an unrecognized method falls back to the historical mean
predict_returns_fallback(horizon) ==
  IF "returns" \notin DOMAIN predictor THEN Raised("AttributeError")
  ELSE IF predictor.method = "ewma" THEN Returns(_predict_ewma)
  ELSE IF predictor.method = "sma" THEN Returns(_predict_sma)
  ELSE IF predictor.method = "ema" THEN Returns(_predict_ema)
  ELSE Returns(_predict_historical_mean)

\* variant: the prediction of one period is multiplied by the horizon
predict_returns_scaled(horizon) ==
  IF predictor.method \notin {"ewma", "sma", "ema", "historical_mean"}
  THEN Raised("ValueError")
  ELSE IF "returns" \notin DOMAIN predictor THEN Raised("AttributeError")
  ELSE LET one == IF predictor.method = "ewma" THEN _predict_ewma
                  ELSE IF predictor.method = "sma" THEN _predict_sma
                  ELSE IF predictor.method = "ema" THEN _predict_ema
                  ELSE _predict_historical_mean
       IN Returns([i \in 1..Len(one) |-> Mul(one[i], horizon)])

\* TimeSeriesPredictor.predict_returns(horizon): the outcome of the call; an
\* object that was never fitted has no attribute returns
predict_returns(horizon) ==
  IF predictor.method \notin {"ewma", "sma", "ema", "historical_mean"}
  THEN Raised("ValueError")
  ELSE IF "returns" \notin DOMAIN predictor THEN Raised("AttributeError")
  ELSE IF predictor.method = "ewma" THEN Returns(_predict_ewma)
  ELSE IF predictor.method = "sma" THEN Returns(_predict_sma)
  ELSE IF predictor.method = "ema" THEN Returns(_predict_ema)
  ELSE Returns(_predict_historical_mean)

\* DataFrame.cov(): the unbiased sample covariance of every pair of columns,
\* not a number with fewer than two rows
SampleCov(table) ==
  LET rows == Len(table)
      n == Len(table[1])
  IN [i \in 1..n |-> [j \in 1..n |->
        IF rows < 2 THEN NaN
        ELSE LET x == Column(table, i)
                 y == Column(table, j)
             IN (rows * Dot(x, y) - Sum(x) * Sum(y)) \div (rows * (rows - 1))]]

RECURSIVE EwmCovUpTo(_, _, _, _)
\* the running means, the running biased covariance and the running sum of
\* squared weights (in ten-thousandths) of ewm(span=span, adjust=False).cov()
\* at row t
EwmCovUpTo(x, y, span, t) ==
  IF t = 1
  THEN [mean_x |-> x[1], mean_y |-> y[1], cov |-> 0, sum_wt2 |-> 10000]
  ELSE LET old == EwmCovUpTo(x, y, span, t - 1)
           mean_x == ((span - 1) * old.mean_x + 2 * x[t]) \div (span + 1)
           mean_y == ((span - 1) * old.mean_y + 2 * y[t]) \div (span + 1)
       IN [mean_x |-> mean_x,
           mean_y |-> mean_y,
           cov |-> ((span - 1) * (old.cov + (old.mean_x - mean_x)
                                             * (old.mean_y - mean_y))
                    + 2 * (x[t] - mean_x) * (y[t] - mean_y)) \div (span + 1),
           sum_wt2 |-> ((span - 1) * (span - 1) * old.sum_wt2 + 4 * 10000)
                         \div ((span + 1) * (span + 1))]

\* DataFrame.ewm(span=span, adjust=False).cov().iloc[-n:]: the matrix of the
\* last row, the bias of each entry corrected by 1 / (1 - sum of squared
\* weights), not a number where that factor is undefined
EwmCov(table, span) ==
  LET n == Len(table[1])
  IN [i \in 1..n |-> [j \in 1..n |->
        LET e == EwmCovUpTo(Column(table, i), Column(table, j), span, Len(table))
        IN IF 10000 - e.sum_wt2 > 0
           THEN (e.cov * 10000) \div (10000 - e.sum_wt2)
           ELSE NaN]]

\* variant: the two weights are exchanged, 0.8 of the target and 0.2 of the
\* sample covariance
_ledoit_wolf_shrinkage_swapped ==
  LET sample_cov == SampleCov(predictor.returns)
      n == Len(sample_cov)
      trace == Sum([i \in 1..n |-> sample_cov[i][i]])
  IN [i \in 1..n |-> [j \in 1..n |->
        IF sample_cov[i][j] = NaN THEN NaN
        ELSE LET avg_var == trace \div n
                 target == IF i = j THEN avg_var ELSE 0
             IN (8 * target + 2 * sample_cov[i][j]) \div 10]]

\* TimeSeriesPredictor._ledoit_wolf_shrinkage: 0.2 of the diagonal target of
\* the average variance plus 0.8 of the sample covariance
_ledoit_wolf_shrinkage ==
  LET sample_cov == SampleCov(predictor.returns)
      n == Len(sample_cov)
      trace == Sum([i \in 1..n |-> sample_cov[i][i]])
  IN [i \in 1..n |-> [j \in 1..n |->
        IF sample_cov[i][j] = NaN THEN NaN
        ELSE LET avg_var == trace \div n
                 target == IF i = j THEN avg_var ELSE 0
             IN (2 * target + 8 * sample_cov[i][j]) \div 10]]

\* TimeSeriesPredictor.predict_covariance(method): the outcome of the call
predict_covariance(method) ==
  IF method \notin {"sample", "ewma", "shrinkage"} THEN Raised("ValueError")
  ELSE IF "returns" \notin DOMAIN predictor THEN Raised("AttributeError")
  ELSE IF method = "sample" THEN Returns(SampleCov(predictor.returns))
  ELSE IF method = "ewma"
  THEN Returns(EwmCov(predictor.returns, Get(predictor, "span", 60)))
  ELSE Returns(_ledoit_wolf_shrinkage)

Annualized(prediction, periods_per_year) ==
  [returns |->
     [i \in 1..Len(prediction.returns) |->
        Mul(prediction.returns[i], periods_per_year)],
   covariance |->
     [i \in 1..Len(prediction.covariance) |->
        [j \in 1..Len(prediction.covariance[i]) |->
           Mul(prediction.covariance[i][j], periods_per_year)]]]

\* variant: only the expected returns are annualized
get_predictions_returns_only(annualize, periods_per_year) ==
  LET r == predict_returns(1)
      c == predict_covariance("sample")
  IN IF r.kind = "raise" THEN r
     ELSE IF c.kind = "raise" THEN c
     ELSE IF annualize
     THEN Returns([returns |->
                     [i \in 1..Len(r.value) |-> Mul(r.value[i], periods_per_year)],
                   covariance |-> c.value])
     ELSE Returns([returns |-> r.value, covariance |-> c.value])

\* variant: the covariance is computed before the expected returns
get_predictions_covariance_first(annualize, periods_per_year) ==
  LET r == predict_returns(1)
      c == predict_covariance("sample")
  IN IF c.kind = "raise" THEN c
     ELSE IF r.kind = "raise" THEN r
     ELSE LET prediction == [returns |-> r.value, covariance |-> c.value]
          IN IF annualize THEN Returns(Annualized(prediction, periods_per_year))
             ELSE Returns(prediction)

\* TimeSeriesPredictor.get_predictions(annualize, periods_per_year): the
\* outcome of the call
get_predictions(annualize, periods_per_year) ==
  LET r == predict_returns(1)
      c == predict_covariance("sample")
  IN IF r.kind = "raise" THEN r
     ELSE IF c.kind = "raise" THEN c
     ELSE LET prediction == [returns |-> r.value, covariance |-> c.value]
          IN IF annualize THEN Returns(Annualized(prediction, periods_per_year))
             ELSE Returns(prediction)

\* inputs of the estimator
MethodInputs == {"ewma", "sma", "ema", "historical_mean", "arima"}
ReturnTables ==
  {<<<<100, -50>>>>,
   <<<<10, 20>>, <<30, -40>>>>,
   <<<<100, -50>>, <<-20, 30>>, <<40, 10>>>>}
KwargInputs ==
  {EmptyDict, [span |-> 3], [window |-> 2], [span |-> 3, window |-> 2]}
HorizonInputs == {1, 5, 21}
CovMethodInputs == {"sample", "ewma", "shrinkage", "garch"}
PeriodInputs == {12, 252}

\* no optimizer has been constructed; an estimator has
InitEstimator ==
  /\ expected_returns = None
  /\ cov_matrix = None
  /\ risk_free_rate = None
  /\ assets = None
  /\ n_assets = None
  /\ frontier = Idle
  /\ \E method \in MethodInputs :
       /\ predictor = TimeSeriesPredictor(method)
       /\ last = [op |-> "TimeSeriesPredictor", method |-> method,
                  ret |-> Returns("self")]

FitReturns ==
  /\ \E returns \in ReturnTables, kwargs \in KwargInputs :
       /\ predictor' = fit(returns, kwargs)
       /\ last' = [op |-> "fit", returns |-> returns, kwargs |-> kwargs,
                   ret |-> Returns("self")]
  /\ UNCHANGED <<Fields, frontier>>

PredictReturns ==
  /\ \E horizon \in HorizonInputs :
       last' = [op |-> "predict_returns", horizon |-> horizon,
                ret |-> predict_returns(horizon)]
  /\ UNCHANGED <<Fields, frontier, predictor>>

\* variant: the ewma branch stores the span it used on the estimator
PredictCovarianceStoringSpan ==
  /\ \E method \in CovMethodInputs :
       /\ last' = [op |-> "predict_covariance", method |-> method,
                   ret |-> predict_covariance(method)]
       /\ predictor' = IF method = "ewma"
                       THEN SetAttr(predictor, "span", Get(predictor, "span", 60))
                       ELSE predictor
  /\ UNCHANGED <<Fields, frontier>>

PredictCovariance ==
  /\ \E method \in CovMethodInputs :
       last' = [op |-> "predict_covariance", method |-> method,
                ret |-> predict_covariance(method)]
  /\ UNCHANGED <<Fields, frontier, predictor>>

GetPredictions ==
  /\ \E annualize \in BOOLEAN, periods_per_year \in PeriodInputs :
       last' = [op |-> "get_predictions", annualize |-> annualize,
                periods_per_year |-> periods_per_year,
                ret |-> get_predictions(annualize, periods_per_year)]
  /\ UNCHANGED <<Fields, frontier, predictor>>

NextEstimator ==
  \/ FitReturns
  \/ PredictReturns
  \/ PredictCovariance
  \/ GetPredictions

SpecEstimator == InitEstimator /\ [][NextEstimator]_vars

(* --------------------------- calculate_returns ------------------------- *)

\* DataFrame.pct_change() on positive prices, in basis points: the first row
\* has no previous row and is not a number
pct_change(prices) ==
  [t \in 1..Len(prices) |->
     [i \in 1..Len(prices[t]) |->
        IF t = 1 THEN NaN
        ELSE ((prices[t][i] - prices[t - 1][i]) * 10000) \div prices[t - 1][i]]]

\* np.log(prices / prices.shift(1)) on positive prices, in basis points, the
\* logarithm taken to the first term of 2 * atanh((a - b) / (a + b))
log_ratio(prices) ==
  [t \in 1..Len(prices) |->
     [i \in 1..Len(prices[t]) |->
        IF t = 1 THEN NaN
        ELSE (20000 * (prices[t][i] - prices[t - 1][i]))
               \div (prices[t][i] + prices[t - 1][i])]]

NotNa(row) == \A i \in 1..Len(row) : row[i] # NaN

\* DataFrame.dropna(): the rows without a missing value
dropna(table) == SelectSeq(table, NotNa)

\* variant: the rows with missing values are kept
calculate_returns_keep_na(prices, method) ==
  IF method = "simple" THEN Returns(pct_change(prices))
  ELSE IF method = "log" THEN Returns(log_ratio(prices))
  ELSE Raised("ValueError")

\* calculate_returns(prices, method): the outcome of the call
calculate_returns(prices, method) ==
  IF method = "simple" THEN Returns(dropna(pct_change(prices)))
  ELSE IF method = "log" THEN Returns(dropna(log_ratio(prices)))
  ELSE Raised("ValueError")

\* gap-free tables of positive prices of two assets, and method arguments
PriceInputs ==
  UNION {[1..rows -> [1..2 -> {100, 110}]] : rows \in 1..MaxRows}
ReturnMethodInputs == {"simple", "log", "geometric"}

\* neither an optimizer nor an estimator has been constructed
InitUtils ==
  /\ expected_returns = None
  /\ cov_matrix = None
  /\ risk_free_rate = None
  /\ assets = None
  /\ n_assets = None
  /\ frontier = Idle
  /\ predictor = None
  /\ last = [op |-> "import"]

CalculateReturns ==
  /\ \E prices \in PriceInputs, method \in ReturnMethodInputs :
       last' = [op |-> "calculate_returns", prices |-> prices,
                method |-> method, ret |-> calculate_returns(prices, method)]
  /\ UNCHANGED <<Fields, frontier, predictor>>

NextUtils == CalculateReturns

SpecUtils == InitUtils /\ [][NextUtils]_vars

(* ------------------------------ claims --------------------------------- *)

SolverOps == {"optimize_max_sharpe", "optimize_min_volatility",
              "optimize_max_return", "optimize_max_return_for_risk"}

\* the last call was a solver call that returned a result
Returned == last.op \in SolverOps /\ last.ret.kind = "return"

\* the last call was a solver call that returned a converged result
Succeeded == Returned /\ last.ret.optimization_success

\* C1: whenever one of the four solvers returns a result with
\* optimization_success = true, the returned weights sum to 1
C1_WeightsSumToOne == Succeeded => Sum(last.ret.weights) = WUnit

C1_Witness ==
  /\ Succeeded
  /\ last.op = "optimize_max_return_for_risk"
  /\ last.constraints = [long_only |-> FALSE]
  /\ Sum(last.ret.weights) = WUnit

\* the constraint values the spec gives a constraints argument
SpecMinWeight(c) == IF "min_weight" \in DOMAIN c THEN c.min_weight ELSE 0
SpecMaxWeight(c) == IF "max_weight" \in DOMAIN c THEN c.max_weight ELSE WUnit
SpecLongOnly(c) == IF "long_only" \in DOMAIN c THEN c.long_only ELSE TRUE
SpecLower(c) == IF SpecLongOnly(c) THEN SpecMinWeight(c) ELSE -SpecMaxWeight(c)
SpecUpper(c) == SpecMaxWeight(c)

C3_BoundsDerivation ==
  /\ last.op \in SolverOps =>
       last.bounds = [i \in 1..n_assets |->
                        <<SpecLower(last.constraints), SpecUpper(last.constraints)>>]
  /\ \A m \in {0, 1} :
       LET c == [long_only |-> FALSE, min_weight |-> m]
           d == [long_only |-> FALSE]
       IN /\ optimize_max_sharpe(c) = optimize_max_sharpe(d)
          /\ optimize_min_volatility(c) = optimize_min_volatility(d)
          /\ optimize_max_return(c) = optimize_max_return(d)
          /\ \A t \in TargetInputs :
               optimize_max_return_for_risk(t, c) = optimize_max_return_for_risk(t, d)

C3_Witness ==
  /\ last.op = "optimize_min_volatility"
  /\ last.constraints = [long_only |-> FALSE, min_weight |-> 1]
  /\ last.bounds = [i \in 1..n_assets |-> <<-WUnit, WUnit>>]
  /\ Returned
  /\ \E i \in 1..n_assets : last.ret.weights[i] < 0

\* C4: when the numerical solver gives back a result, converged or not, the
\* solver call raises nothing and returns a complete result computed from
\* the solver's iterate; optimization_success is true exactly when the
\* numerical solver reported success
C4_NonConvergenceReturned ==
  (last.op \in SolverOps /\ last.result.kind = "result") =>
    /\ last.ret.kind = "return"
    /\ last.ret.optimization_success = last.result.success
    /\ last.ret.weights = last.result.x
    /\ last.ret.expected_return = Dot(last.result.x, expected_returns)
    /\ last.ret.volatility =
         Sqrt(Dot(last.result.x, MatVec(cov_matrix, last.result.x)))
    /\ DOMAIN last.ret = {"kind", "weights", "expected_return", "volatility",
                          "sharpe_ratio", "optimization_success"}

C4_Witness ==
  /\ last.op = "optimize_max_return"
  /\ last.result.kind = "result"
  /\ ~last.result.success
  /\ last.ret.kind = "return"
  /\ ~last.ret.optimization_success
  /\ Sum(last.ret.weights) # WUnit

\* C9: a result of optimize_max_return_for_risk with optimization_success =
\* true has volatility <= target_volatility (the tolerance is below one
\* volatility unit)
C9_VolatilityAtMostTarget ==
  (Succeeded /\ last.op = "optimize_max_return_for_risk") =>
    last.ret.volatility <= last.target_volatility

C9_Witness ==
  /\ Succeeded
  /\ last.op = "optimize_max_return_for_risk"
  /\ last.target_volatility = 25 * WUnit
  /\ last.ret.volatility > 0

\* C10: for every result a solver returns, converged or not, expected_return,
\* volatility and sharpe_ratio are the values get_portfolio_statistics gives
\* for the weights of the same result, the Sharpe ratio being
\* (weights.returns - risk_free_rate) / sqrt(weights.Cov.weights)
C10_StatisticsOfReturnedWeights ==
  Returned =>
    LET stats == get_portfolio_statistics(last.ret.weights)
        w == last.ret.weights
        vol == Sqrt(Dot(w, MatVec(cov_matrix, w)))
    IN /\ last.ret.expected_return = stats.expected_return
       /\ last.ret.volatility = stats.volatility
       /\ last.ret.sharpe_ratio = stats.sharpe_ratio
       /\ vol # 0 =>
            last.ret.sharpe_ratio =
              ((Dot(w, expected_returns) - risk_free_rate * WUnit) * 100) \div vol

C10_Witness ==
  /\ Returned
  /\ ~last.ret.optimization_success
  /\ risk_free_rate # 0
  /\ last.ret.volatility # 0
  /\ last.ret.sharpe_ratio < 0

\* a frontier call is inside its loop, or has returned its points
InRun ==
  \/ frontier.pc = "loop"
  \/ /\ frontier.pc = "idle"
     /\ last.op = "calculate_efficient_frontier"
     /\ last.ret.kind = "return"

RunDone == InRun /\ frontier.pc = "idle"

\* the solver calls, the grid and the points collected so far of that call
RunSolves == IF frontier.pc = "loop" THEN frontier.solves ELSE last.solves
RunTargets == IF frontier.pc = "loop" THEN frontier.target_vols ELSE last.target_vols
RunRows == IF frontier.pc = "loop" THEN frontier.results ELSE last.ret.rows
RunPoints == IF frontier.pc = "loop" THEN frontier.n_points ELSE last.n_points

IsGridSolve(s) == s.fn = "optimize_max_return_for_risk"

\* the solves of the grid values, in the order they were made
GridSolves(solves) == SelectSeq(solves, IsGridSolve)

\* how many of the solves raised
RECURSIVE RaisedCount(_)
RaisedCount(g) ==
  IF g = <<>> THEN 0
  ELSE (IF Head(g).ret.kind = "raise" THEN 1 ELSE 0) + RaisedCount(Tail(g))

\* the points of the solves that returned, in the order of the solves
RECURSIVE PointsOf(_)
PointsOf(g) ==
  IF g = <<>> THEN <<>>
  ELSE IF Head(g).ret.kind = "raise" THEN PointsOf(Tail(g))
  ELSE <<[volatility |-> Head(g).ret.volatility,
          expected_return |-> Head(g).ret.expected_return,
          sharpe_ratio |-> Head(g).ret.sharpe_ratio]>> \o PointsOf(Tail(g))

\* C5: a sub-solve that raises for a grid value does not end the call with
\* an error, leaves no point, is not solved again, and every later grid value
\* is still solved once, in grid order
C5_RaisingSubSolveAbsorbed ==
  /\ InRun =>
       LET g == GridSolves(RunSolves)
       IN /\ Len(g) <= Len(RunTargets)
          /\ \A k \in 1..Len(g) : g[k].target_volatility = RunTargets[k]
          /\ Len(RunRows) = Len(g) - RaisedCount(g)
          /\ RunDone => Len(g) = Len(RunTargets)
  /\ (last.op = "calculate_efficient_frontier" /\ last.ret.kind = "raise") =>
       GridSolves(last.solves) = <<>>

C5_Witness ==
  /\ RunDone
  /\ LET g == GridSolves(RunSolves)
     IN /\ Len(g) = MaxPoints
        /\ g[1].ret.kind = "raise"
        /\ \A k \in 2..Len(g) : g[k].ret.kind = "return"

\* C6: for n_points >= 0 the output has at most n_points points, exactly
\* n_points minus the number of grid values whose sub-solve raised, and the
\* points are those of the returning sub-solves in grid order
C6_OutputIsSubsequenceOfGrid ==
  RunDone =>
    LET g == GridSolves(RunSolves)
    IN /\ RunPoints >= 0
       /\ Len(RunTargets) = RunPoints
       /\ Len(RunRows) <= RunPoints
       /\ Len(RunRows) = RunPoints - RaisedCount(g)
       /\ RunRows = PointsOf(g)

C6_Witness ==
  /\ RunDone
  /\ RunPoints = MaxPoints
  /\ RaisedCount(GridSolves(RunSolves)) = 1
  /\ Len(RunRows) = MaxPoints - 1
  /\ RunRows[1] # RunRows[2]

\* C7: the target volatilities passed to optimize_max_return_for_risk by a
\* frontier call are in non-decreasing order, whatever the anchor solves
\* returned
C7_TargetsNonDecreasing ==
  InRun =>
    LET g == GridSolves(RunSolves)
    IN \A j, k \in 1..Len(g) :
         j < k => g[j].target_volatility <= g[k].target_volatility

\* C8 as stated: every returned point has a realized volatility within
\* tolerance (one volatility unit) of the target volatility of its grid value
C8_RealizedNearTarget ==
  InRun =>
    LET g == GridSolves(RunSolves)
    IN \A k \in 1..Len(g) :
         g[k].ret.kind = "return" =>
           /\ g[k].ret.volatility <= RunTargets[k] + 1
           /\ g[k].ret.volatility >= RunTargets[k] - 1

\* C8 (amended): every returned point whose sub-solve converged has a
\* realized volatility not above the target volatility of its grid value
C8_RealizedAtMostTarget ==
  InRun =>
    LET g == GridSolves(RunSolves)
    IN \A k \in 1..Len(g) :
         (g[k].ret.kind = "return" /\ g[k].ret.optimization_success) =>
           g[k].ret.volatility <= RunTargets[k]

C8_Witness ==
  /\ RunDone
  /\ LET g == GridSolves(RunSolves)
     IN /\ Len(g) = MaxPoints
        /\ \A k \in 1..Len(g) :
             g[k].ret.kind = "return" /\ g[k].ret.optimization_success
        /\ g[1].ret.volatility = RunTargets[1]
        /\ g[Len(g)].ret.volatility < RunTargets[Len(g)] - 1

\* the last call was a construction of the optimizer
Constructed == last.op = "__init__"

\* the entrywise mean of a matrix and its transpose
Symmetrized(m) ==
  [i \in 1..Len(m) |-> [j \in 1..Len(m) |-> (m[i][j] + m[j][i]) \div 2]]

\* every pair of mirrored entries differs by at most 1e-8 plus 1e-5 of the
\* mirrored entry (both sides multiplied by 100000)
WithinAllCloseTolerance(m) ==
  \A i \in 1..Len(m) : \A j \in 1..Len(m) :
    100000 * Abs(m[i][j] - m[j][i]) <= 10 + Abs(m[j][i])

\* C13 as stated: after construction the stored covariance matrix is
\* symmetric: an asymmetric argument C is stored as (C + transpose(C)) / 2
\* and a symmetric one unchanged
C13_StoredSymmetric ==
  Constructed =>
    /\ cov_matrix = Transpose(cov_matrix)
    /\ cov_matrix = Symmetrized(last.covariance_matrix)

\* C13 amended: an argument C that differs from its transpose by more than
\* the np.allclose tolerance is stored as (C + transpose(C)) / 2, which is
\* symmetric; an argument within the tolerance of its transpose, a symmetric
\* one included, is stored unchanged
C13_StoredSymmetricBeyondTolerance ==
  Constructed =>
    IF WithinAllCloseTolerance(last.covariance_matrix)
    THEN cov_matrix = last.covariance_matrix
    ELSE /\ cov_matrix = Symmetrized(last.covariance_matrix)
         /\ cov_matrix = Transpose(cov_matrix)

C13_Witness ==
  /\ Constructed
  /\ last.covariance_matrix = <<<<900, -100>>, <<-200, 400>>>>
  /\ cov_matrix = <<<<900, -150>>, <<-150, 400>>>>

\* the last call was get_portfolio_statistics
StatisticsCall == last.op = "get_portfolio_statistics"

\* C15: the Sharpe ratio reported for a weight vector is (expected return -
\* risk free rate) / volatility when the volatility is not zero and exactly
\* 0 when the volatility is exactly zero
C15_SharpeRatioGuarded ==
  StatisticsCall =>
    IF last.ret.volatility = 0
    THEN last.ret.sharpe_ratio = 0
    ELSE last.ret.sharpe_ratio =
           ((last.ret.expected_return - risk_free_rate * WUnit) * 100)
             \div last.ret.volatility

C15_Witness ==
  /\ StatisticsCall
  /\ last.weights = <<0, 0>>
  /\ risk_free_rate = 12
  /\ last.ret.volatility = 0
  /\ last.ret.sharpe_ratio = 0

\* C16: an optimizer constructed with the same expected returns and
\* covariance matrix and a risk free rate that is not lower reports, for every
\* weight vector, a Sharpe ratio that is not higher (both are 0 at zero
\* volatility)
C16_SharpeNonIncreasingInRiskFreeRate ==
  [][(/\ last'.op = "__init__"
      /\ expected_returns' = expected_returns
      /\ cov_matrix' = cov_matrix
      /\ risk_free_rate' >= risk_free_rate)
     => \A weights \in WeightInputs :
          _calculate_sharpe_ratio(weights)' <= _calculate_sharpe_ratio(weights)]_vars

\* a Sharpe ratio reported at the higher risk free rate lies strictly below
\* the one the same weights have at risk free rate zero
C16_Witness ==
  /\ StatisticsCall
  /\ risk_free_rate = 12
  /\ last.ret.volatility > 0
  /\ last.ret.sharpe_ratio
       < (last.ret.expected_return * 100) \div last.ret.volatility

\* the weight vector that puts everything in asset i
UnitVector(i) == [j \in 1..n_assets |-> IF j = i THEN WUnit ELSE 0]

\* C17: get_portfolio_statistics reports expected_return = w . r and
\* volatility = sqrt(w . Cov . w): all weight on asset i gives the return of
\* asset i and the square root of Cov[i,i]; equal weights 1/N give the
\* arithmetic mean of the expected returns
C17_StatisticsFormulas ==
  StatisticsCall =>
    /\ last.ret.expected_return = Dot(last.weights, expected_returns)
    /\ last.ret.volatility =
         Sqrt(Dot(last.weights, MatVec(cov_matrix, last.weights)))
    /\ \A i \in 1..n_assets :
         last.weights = UnitVector(i) =>
           /\ last.ret.volatility = Sqrt(WUnit * WUnit * cov_matrix[i][i])
           /\ last.ret.expected_return = WUnit * expected_returns[i]
    /\ (\A i \in 1..n_assets : n_assets * last.weights[i] = WUnit) =>
         n_assets * last.ret.expected_return = WUnit * Sum(expected_returns)

C17_Witness ==
  /\ StatisticsCall
  /\ last.weights = UnitVector(2)
  /\ cov_matrix[2][2] = 900
  /\ last.ret.volatility = 30 * WUnit

\* C14: no operation of a constructed optimizer (the four solvers,
\* calculate_efficient_frontier, get_portfolio_statistics) changes
\* expected_returns, cov_matrix, risk_free_rate, assets or n_assets
C14_FieldsUnchanged == [][Fields' = Fields]_vars

\* a frontier call has returned on the optimizer constructed from the
\* asymmetric covariance argument, whose fields are the constructed ones
C14_Witness ==
  /\ last.op = "calculate_efficient_frontier"
  /\ last.ret.kind = "return"
  /\ Len(last.ret.rows) = 1
  /\ expected_returns = <<10, 15>>
  /\ cov_matrix = <<<<900, -150>>, <<-150, 400>>>>
  /\ risk_free_rate = 12
  /\ assets = <<1, 2>>
  /\ n_assets = 2

\* a sub-solve of the grid returned a converged result
Converged(s) == s.ret.kind = "return" /\ s.ret.optimization_success

UnrecognizedMethod ==
  predictor.method \notin {"ewma", "sma", "ema", "historical_mean"}

C12_AnnualizationMultipliesByPeriods ==
  (/\ last.op = "get_predictions"
   /\ last.annualize
   /\ last.ret.kind = "return") =>
    LET plain == get_predictions(FALSE, last.periods_per_year)
        n == Len(predictor.assets)
    IN /\ plain.kind = "return"
       /\ \A i \in 1..n :
            /\ last.ret.value.returns[i]
                 = Mul(plain.value.returns[i], last.periods_per_year)
            /\ \A j \in 1..n :
                 last.ret.value.covariance[i][j]
                   = Mul(plain.value.covariance[i][j], last.periods_per_year)

C12_Witness ==
  /\ last.op = "get_predictions"
  /\ last.annualize
  /\ last.periods_per_year = 252
  /\ last.ret.kind = "return"
  /\ predictor.method = "historical_mean"
  /\ last.ret.value.returns[1] = 252 * 40
  /\ last.ret.value.covariance[1][2] = 252 * (-2400)

\* C19: predict_returns gives the same outcome for every horizon
C19_HorizonIgnored ==
  /\ \A h1 \in HorizonInputs : \A h2 \in HorizonInputs :
       predict_returns(h1) = predict_returns(h2)
  /\ last.op = "predict_returns" => last.ret = predict_returns(1)

C19_Witness ==
  /\ last.op = "predict_returns"
  /\ last.horizon = 21
  /\ predictor.method = "ewma"
  /\ last.ret.kind = "return"
  /\ predictor.span = 3
  /\ last.ret = predict_returns(1)
  /\ last.ret.value[1] # 0

\* C20: calculate_returns with method simple or log on a gap-free table of
\* R rows of positive prices returns a table of exactly R - 1 rows with the
\* same columns and no missing value
C20_ReturnsDropFirstRow ==
  (last.op = "calculate_returns" /\ last.method \in {"simple", "log"}) =>
    /\ last.ret.kind = "return"
    /\ Len(last.ret.value) = Len(last.prices) - 1
    /\ \A t \in 1..Len(last.ret.value) :
         /\ Len(last.ret.value[t]) = Len(last.prices[1])
         /\ \A i \in 1..Len(last.ret.value[t]) : last.ret.value[t][i] # NaN

C20_Witness ==
  /\ last.op = "calculate_returns"
  /\ last.method = "log"
  /\ last.prices = <<<<100, 110>>, <<110, 100>>, <<110, 110>>>>
  /\ last.ret.kind = "return"
  /\ last.ret.value = <<<<952, -953>>, <<0, 952>>>>

\* the constraints argument of the frontier call in progress or returned
RunConstraints ==
  IF frontier.pc = "loop" THEN frontier.constraints ELSE last.constraints

\* C21: calculate_efficient_frontier solves optimize_min_volatility once and
\* optimize_max_sharpe once, both before the first
\* optimize_max_return_for_risk, and gives its own constraints argument to
\* every one of these solves
C21_AnchorsOnceBeforeGrid ==
  InRun =>
    /\ Len(RunSolves) >= 2
    /\ RunSolves[1].fn = "optimize_min_volatility"
    /\ RunSolves[2].fn = "optimize_max_sharpe"
    /\ \A k \in 3..Len(RunSolves) :
         RunSolves[k].fn = "optimize_max_return_for_risk"
    /\ \A k \in 1..Len(RunSolves) : RunSolves[k].constraints = RunConstraints

C21_Witness ==
  /\ RunDone
  /\ last.constraints = [long_only |-> FALSE]
  /\ Len(last.solves) = 2 + MaxPoints
  /\ last.solves[1].fn = "optimize_min_volatility"
  /\ last.solves[2 + MaxPoints].constraints = [long_only |-> FALSE]

\* C22: for n_points >= 2 the grid of target volatilities has n_points
\* values, starts at the volatility of the min-volatility anchor result, ends
\* at twice the volatility of the max-Sharpe anchor result, and consecutive
\* values differ by the same step (to within one unit of the fixed point
\* scale, the rounding of a grid value)
C22_GridEvenlySpacedBetweenAnchors ==
  (InRun /\ RunPoints >= 2) =>
    LET t == RunTargets
        n == RunPoints
    IN /\ Len(t) = n
       /\ t[1] = RunSolves[1].ret.volatility
       /\ t[n] = 2 * RunSolves[2].ret.volatility
       /\ \A i \in 1..(n - 2) :
            Abs((t[i + 2] - t[i + 1]) - (t[i + 1] - t[i])) <= 1
       /\ \A i \in 1..n :
            Abs((n - 1) * (t[i] - t[1]) - (i - 1) * (t[n] - t[1])) < n - 1

C22_Witness ==
  /\ RunDone
  /\ RunPoints = MaxPoints
  /\ Len(RunTargets) = MaxPoints
  /\ RunTargets[1] = RunSolves[1].ret.volatility
  /\ RunTargets[1] < RunTargets[2]
  /\ RunTargets[2] < RunTargets[MaxPoints]

\* the last call is a call of calculate_efficient_frontier
FrontierCalled == last.op = "calculate_efficient_frontier"

\* C27: an error raised by either anchor solve of calculate_efficient_frontier
\* is the outcome of the call: it is raised to the caller, nothing is solved
\* after it and no frontier is returned; the loop is entered only after both
\* anchors returned
C27_AnchorErrorPropagates ==
  /\ FrontierCalled =>
       \A k \in 1..2 :
         (k <= Len(last.solves) /\ last.solves[k].ret.kind = "raise") =>
           /\ last.ret = last.solves[k].ret
           /\ Len(last.solves) = k
  /\ InRun =>
       /\ RunSolves[1].ret.kind = "return"
       /\ RunSolves[2].ret.kind = "return"

C27_Witness ==
  /\ FrontierCalled
  /\ last.constraints = None
  /\ Len(last.solves) = 2
  /\ last.solves[1].ret.kind = "return"
  /\ last.solves[2].fn = "optimize_max_sharpe"
  /\ last.solves[2].ret.kind = "raise"
  /\ last.ret = Raised("ValueError")

\* the number of solves among the first k that returned
RECURSIVE ReturnedUpTo(_, _)
ReturnedUpTo(g, k) ==
  IF k = 0 THEN 0
  ELSE (IF g[k].ret.kind = "return" THEN 1 ELSE 0) + ReturnedUpTo(g, k - 1)

\* C28: calculate_efficient_frontier does not look at optimization_success:
\* every grid value whose sub-solve returned, converged or not, has its point
\* in the output, and only the sub-solves that raised have none
C28_NonConvergedPointsKept ==
  InRun =>
    LET g == GridSolves(RunSolves)
    IN /\ Len(RunRows) = ReturnedUpTo(g, Len(g))
       /\ \A k \in 1..Len(g) :
            g[k].ret.kind = "return" =>
              LET row == RunRows[ReturnedUpTo(g, k)]
              IN /\ row.volatility = g[k].ret.volatility
                 /\ row.expected_return = g[k].ret.expected_return
                 /\ row.sharpe_ratio = g[k].ret.sharpe_ratio

C28_Witness ==
  /\ RunDone
  /\ LET g == GridSolves(RunSolves)
     IN /\ Len(g) = 2
        /\ g[1].ret.kind = "return"
        /\ ~g[1].ret.optimization_success
        /\ g[2].ret.kind = "raise"
        /\ Len(RunRows) = 1
        /\ RunRows[1].expected_return = g[1].ret.expected_return

\* the span predict_returns smooths with: span for the exponentially
\* weighted method, window for the exponential moving average
SmoothingSpan ==
  IF predictor.method = "ewma" THEN predictor.span ELSE predictor.window

\* C23: predict_covariance('ewma') computes the exponentially weighted
\* covariance with the span that predict_returns smooths with, for the
\* exponentially weighted method and for the exponential moving average
C23_CovarianceSpanIsEstimatorSpan ==
  (/\ last.op = "predict_covariance"
   /\ last.method = "ewma"
   /\ last.ret.kind = "return"
   /\ predictor.method \in {"ewma", "ema"}) =>
    last.ret.value = EwmCov(predictor.returns, SmoothingSpan)

\* C24: predict_returns, predict_covariance and get_predictions leave the
\* attributes of the estimator (return table, asset list, method, span,
\* window) as they were, whether they return or raise
C24_PredictionsLeaveEstimatorUnchanged ==
  [][last'.op \in {"predict_returns", "predict_covariance", "get_predictions"}
     => predictor' = predictor]_vars

\* predict_covariance('ewma') has returned on a fitted estimator of the
\* exponential moving average, which still has a window and no span
C24_Witness ==
  /\ last.op = "predict_covariance"
  /\ last.method = "ewma"
  /\ last.ret.kind = "return"
  /\ predictor.method = "ema"
  /\ predictor.window = 2
  /\ "span" \notin DOMAIN predictor

\* the last call was fit
FitCalled == last.op = "fit"

\* C25: fit stores the return table and the asset list and returns the
\* estimator; for method ewma it stores span, the given value or 60, for sma
\* and ema it stores window, the given value or 30, and for historical_mean
\* it needs no parameter and stores none
C25_FitStoresTableAndParameter ==
  FitCalled =>
    /\ last.ret = Returns("self")
    /\ predictor.returns = last.returns
    /\ predictor.assets = [i \in 1..Len(last.returns[1]) |-> i]
    /\ predictor.method = "ewma" =>
         /\ "span" \in DOMAIN predictor
         /\ predictor.span = (IF "span" \in DOMAIN last.kwargs
                              THEN last.kwargs.span ELSE 60)
    /\ predictor.method \in {"sma", "ema"} =>
         /\ "window" \in DOMAIN predictor
         /\ predictor.window = (IF "window" \in DOMAIN last.kwargs
                                THEN last.kwargs.window ELSE 30)
    /\ predictor.method = "historical_mean" =>
         DOMAIN predictor = {"method", "fitted_params", "returns", "assets"}

C25_Witness ==
  /\ FitCalled
  /\ predictor.method = "sma"
  /\ last.kwargs = [span |-> 3]
  /\ predictor.window = 30
  /\ predictor.returns = last.returns
  /\ Len(predictor.returns) = 3

\* the attributes of an estimator of the given method that has only ever
\* been fitted with the given table and parameters
FittedOnce(method, returns, kwargs) ==
  LET columns == [i \in 1..Len(returns[1]) |-> i]
  IN IF method = "ewma"
     THEN [method |-> method, fitted_params |-> EmptyDict,
           returns |-> returns, assets |-> columns,
           span |-> (IF "span" \in DOMAIN kwargs THEN kwargs.span ELSE 60)]
     ELSE IF method \in {"sma", "ema"}
     THEN [method |-> method, fitted_params |-> EmptyDict,
           returns |-> returns, assets |-> columns,
           window |-> (IF "window" \in DOMAIN kwargs THEN kwargs.window ELSE 30)]
     ELSE [method |-> method, fitted_params |-> EmptyDict,
           returns |-> returns, assets |-> columns]

\* C30: every fit, whatever was fitted before it, leaves the estimator with
\* the method it had and with the return table, asset list and parameter of
\* this fit alone: a span or window that is not given is the default 60 or
\* 30, not the value of an earlier fit, so later predictions depend on the
\* most recent fit only
C30_RefitReplacesEarlierFit ==
  [][last'.op = "fit"
     => predictor' = FittedOnce(predictor.method, last'.returns, last'.kwargs)]_vars

\* a fit without span has left the default span and a one-row table
C30_Witness ==
  /\ FitCalled
  /\ predictor.method = "ewma"
  /\ last.kwargs = [window |-> 2]
  /\ predictor.span = 60
  /\ Len(predictor.returns) = 1

\* the sum of the diagonal of a matrix of numbers
Trace(m) == Sum([i \in 1..Len(m) |-> m[i][i]])

\* C26: predict_covariance('shrinkage') returns 0.2 * target + 0.8 * sample
\* covariance with target the identity scaled by trace(sample) / N: an
\* off-diagonal entry is 0.8 of the sample entry, the result is symmetric
\* when the sample covariance is, and its trace is the trace of the sample
\* covariance (to within one unit per diagonal entry, the rounding of the
\* fixed point scale); where the sample covariance is not a number, so is
\* the result
C26_ShrinkageFormula ==
  (/\ last.op = "predict_covariance"
   /\ last.method = "shrinkage"
   /\ last.ret.kind = "return") =>
    LET sample == SampleCov(predictor.returns)
        shrunk == last.ret.value
        n == Len(sample)
    IN /\ Len(shrunk) = n
       /\ \A i \in 1..n : \A j \in 1..n :
            IF sample[i][j] = NaN THEN shrunk[i][j] = NaN
            ELSE IF i # j THEN shrunk[i][j] = (8 * sample[i][j]) \div 10
            ELSE shrunk[i][i]
                   = (2 * (Trace(sample) \div n) + 8 * sample[i][i]) \div 10
       /\ sample = Transpose(sample) => shrunk = Transpose(shrunk)
       /\ (\A i \in 1..n : sample[i][i] # NaN) =>
            Abs(Trace(shrunk) - Trace(sample)) <= n

C26_Witness ==
  /\ last.op = "predict_covariance"
  /\ last.method = "shrinkage"
  /\ last.ret.kind = "return"
  /\ Len(predictor.returns) = 3
  /\ SampleCov(predictor.returns)[1][2] = -2400
  /\ last.ret.value[1][2] = -1920
  /\ last.ret.value[2][1] = -1920

\* C29: get_predictions takes its covariance from the sample covariance,
\* whatever the method of the estimator, and its returns from predict_returns
\* of that method; with an unrecognized method it raises the ValueError of
\* predict_returns, before any covariance is computed (an estimator that was
\* never fitted would fail differently there)
C29_PredictionsUseSampleCovariance ==
  last.op = "get_predictions" =>
    /\ UnrecognizedMethod => last.ret = Raised("ValueError")
    /\ last.ret.kind = "return" =>
         LET periods == IF last.annualize THEN last.periods_per_year ELSE 1
             sample == SampleCov(predictor.returns)
             forecast == predict_returns(1)
             n == Len(predictor.assets)
         IN /\ forecast.kind = "return"
            /\ \A i \in 1..n :
                 /\ last.ret.value.returns[i] = Mul(forecast.value[i], periods)
                 /\ \A j \in 1..n :
                      last.ret.value.covariance[i][j] = Mul(sample[i][j], periods)

C29_Witness ==
  /\ last.op = "get_predictions"
  /\ ~last.annualize
  /\ last.ret.kind = "return"
  /\ predictor.method = "ewma"
  /\ last.ret.value.covariance = SampleCov(predictor.returns)
  /\ last.ret.value.covariance # EwmCov(predictor.returns, predictor.span)
  /\ last.ret.value.covariance # _ledoit_wolf_shrinkage

====
